---------------------------- MODULE Spec2Model ----------------------------
(***************************************************************************)
(* A model of the sql wrapper of src/wrapper.go: a struct holding a config *)
(* and a *gorm.DB handle, whose methods forward to the ORM, plus NewSql,   *)
(* InitSql, Migrate, Close and Seed.                                       *)
(*                                                                         *)
(* A call is one atomic step from pc = "idle" to pc = "done"; the step     *)
(* records, in `trace`, every call the handler made (on the ORM handle, on *)
(* the connection pool, on the os package, on the fatal helper), in the    *)
(* order the code makes them.  Continue is the caller going on to its next *)
(* call.                                                                   *)
(***************************************************************************)
EXTENDS Integers, Sequences, FiniteSets

(* ------------------------------ bounds ------------------------------- *)

\* distinct argument values a caller passes
NumVals == 2
\* longest variadic tail a caller passes
MaxVariadic == 2
\* distinct error values the libraries return (0 is the nil error)
NumErrs == 2
\* entries of a migration directory
MaxFiles == 3
\* connections gorm.Open may hand out in one run
MaxConns == 2

(* ------------------------- program constants ------------------------- *)

\* the `go 1.19` line of go.mod: before 1.22 a range loop has ONE variable
GoMinor == 19
\* time.Second, in nanoseconds (time.Duration is a count of nanoseconds)
Second == 1000000000

Values == 1..NumVals
Errs == 1..NumErrs
Names == 1..MaxFiles
NoErr == 0

(* ------------------------------ values ------------------------------- *)

\* an interface{} argument as the library receives it: one value, or one
\* slice holding several
Scalar(x) == [slice |-> FALSE, elems |-> <<x>>]
SliceOf(xs) == [slice |-> TRUE, elems |-> xs]

\* a *gorm.DB: the connection it came from, whether it is a Debug()
\* session, and the calls chained on it since gorm.Open
NilH == [conn |-> 0, debug |-> FALSE, chain |-> <<>>]
BaseHandle(c) == [conn |-> c, debug |-> FALSE, chain |-> <<>>]
\* (*gorm.DB).Debug(): a new session of the same connection
DebugSession(h) == [h EXCEPT !.debug = TRUE]
\* what a chainable ORM method returns: a new handle that remembers the call
Derived(h, m, a) == [h EXCEPT !.chain = Append(h.chain, [m |-> m, a |-> a])]

\* one call made by a handler.  kind: "orm" (a method of the stored handle
\* g.db), "field" (a field of g.db), "gorm" (gorm.Open), "local" (a method of
\* the handle InitSql holds in its local `database`), "pool" (a method of
\* *sql.DB), "os" (os, ioutil, the registry), "fatal" (helper.CustomPanic),
\* "print" (fmt.Println)
Ev(k, h, m, a, e) == [kind |-> k, recv |-> h, method |-> m, args |-> a, err |-> e]

\* what a handler hands back to its caller
Ret(h, v, e) == [h |-> h, val |-> v, err |-> e]
NoRet == Ret(NilH, 0, NoErr)

\* the result of one handler: the stored handle after it, the calls it made,
\* what it returned and how it ended ("ok", "fatal": the helper took over,
\* "nilpanic": a nil *gorm.DB was dereferenced)
Result(h, t, r, o) == [db |-> h, trace |-> t, ret |-> r, outcome |-> o]

(* ------------------------------ config ------------------------------- *)

PoolValues == {-1, 0, 2}
\* the fields of dbConfig that InitSql branches on
Configs ==
    [Debug : BOOLEAN, MaxIdleConnections : PoolValues,
     MaxOpenConnections : PoolValues, MaxLifetimeSeconds : PoolValues]
ZeroConfig ==
    [Debug |-> FALSE, MaxIdleConnections |-> 0,
     MaxOpenConnections |-> 0, MaxLifetimeSeconds |-> 0]
\* the configurations the general specification runs with
TypicalConfigs ==
    {ZeroConfig, [ZeroConfig EXCEPT !.Debug = TRUE]}

VARIABLES
    constructed,  \* NewSql has returned the wrapper
    config,       \* sql.config
    db,           \* sql.db
    nextConn,     \* the next connection gorm.Open hands out
    openConns,    \* connections opened and not closed
    inited,       \* history: an InitSql call has completed
    applied,      \* history: the last Migrate call, if it returned normally
    prior,        \* history: the call before this one, if a Where or a Begin
    pc,           \* "idle": between calls; "done": a call has just ended
    call,         \* the call that just ended: its name and arguments
    dir,          \* the directory the last Migrate was pointed at
    trace,        \* the calls the handler made, in order
    ret,          \* what it returned
    outcome       \* how it ended

vars == <<constructed, config, db, nextConn, openConns, inited, applied,
          prior, pc, call, dir, trace, ret, outcome>>

NoCall == [name |-> "", args |-> <<>>]
NoDir == [status |-> "", listing |-> <<>>]
NoApplied == [valid |-> FALSE, files |-> {}, exec |-> <<>>]

Init ==
    /\ constructed = FALSE
    /\ config = ZeroConfig
    /\ db = NilH
    /\ nextConn = 1
    /\ openConns = {}
    /\ inited = FALSE
    /\ applied = NoApplied
    /\ prior = ""
    /\ pc = "idle"
    /\ call = NoCall
    /\ dir = NoDir
    /\ trace = <<>>
    /\ ret = NoRet
    /\ outcome = ""

\* helper.CustomPanic(msg, err): control does not come back to the handler
CustomPanic(e) == Ev("fatal", NilH, "CustomPanic", <<>>, e)

\* the bookkeeping of a finished call
Finish(name, args, d, r) ==
    /\ pc' = "done"
    /\ call' = [name |-> name, args |-> args]
    /\ dir' = d
    /\ db' = r.db
    /\ trace' = r.trace
    /\ ret' = r.ret
    /\ outcome' = r.outcome
    /\ prior' = prior

(* ------------------------------ NewSql ------------------------------- *)

\* registry.Parse(&database.config) filled the config with cfg and returned e
NewSqlStep(cfg, e) ==
    LET parse == Ev("os", NilH, "Parse", <<>>, e) IN
    IF e # NoErr
    THEN Result(NilH, <<parse, CustomPanic(e)>>, NoRet, "fatal")
    ELSE Result(NilH, <<parse>>, NoRet, "ok")

NewSqlFrom(cfgs) ==
    /\ pc = "idle"
    /\ ~constructed
    /\ \E cfg \in cfgs, e \in {NoErr} \cup Errs :
          LET r == NewSqlStep(cfg, e) IN
          /\ Finish("NewSql", <<>>, NoDir, r)
          /\ constructed' = (r.outcome = "ok")
          /\ config' = IF r.outcome = "ok" THEN cfg ELSE config
    /\ UNCHANGED <<nextConn, openConns, inited, applied>>

NewSql == NewSqlFrom(TypicalConfigs)
NewSqlAnyConfig == NewSqlFrom(Configs)

(* ------------------------------ InitSql ------------------------------ *)

\* (mutant) the pool settings applied only when positive
PoolCallsPositive(cfg, h) ==
    (IF cfg.MaxIdleConnections > 0
     THEN <<Ev("pool", h, "SetMaxIdleConns", <<Scalar(cfg.MaxIdleConnections)>>, NoErr)>>
     ELSE <<>>)
    \o
    (IF cfg.MaxOpenConnections > 0
     THEN <<Ev("pool", h, "SetMaxOpenConns", <<Scalar(cfg.MaxOpenConnections)>>, NoErr)>>
     ELSE <<>>)
    \o
    (IF cfg.MaxLifetimeSeconds > 0
     THEN <<Ev("pool", h, "SetConnMaxLifetime",
               <<Scalar(Second * cfg.MaxLifetimeSeconds)>>, NoErr)>>
     ELSE <<>>)

\* the three `if g.config.X != 0 { sqlDatabase.SetX(...) }` of InitSql
PoolCalls(cfg, h) ==
    (IF cfg.MaxIdleConnections # 0
     THEN <<Ev("pool", h, "SetMaxIdleConns", <<Scalar(cfg.MaxIdleConnections)>>, NoErr)>>
     ELSE <<>>)
    \o
    (IF cfg.MaxOpenConnections # 0
     THEN <<Ev("pool", h, "SetMaxOpenConns", <<Scalar(cfg.MaxOpenConnections)>>, NoErr)>>
     ELSE <<>>)
    \o
    (IF cfg.MaxLifetimeSeconds # 0
     THEN <<Ev("pool", h, "SetConnMaxLifetime",
               <<Scalar(Second * cfg.MaxLifetimeSeconds)>>, NoErr)>>
     ELSE <<>>)

\* `if g.config.Debug { database = database.Debug() }`
DebugCalls(cfg, h) ==
    IF cfg.Debug THEN <<Ev("local", h, "Debug", <<>>, NoErr)>> ELSE <<>>

\* (mutant) g.db assigned right after gorm.Open, before database.DB() is
\* checked
InitSqlStepEarlyStore(cfg, old, c, openErr, dbErr) ==
    LET database == BaseHandle(c)
        open == Ev("gorm", NilH, "Open", <<>>, openErr)
        getdb == Ev("local", database, "DB", <<>>, dbErr)
    IN  IF openErr # NoErr
        THEN Result(old, <<open, CustomPanic(openErr)>>, NoRet, "fatal")
        ELSE IF dbErr # NoErr
        THEN Result(database, <<open, getdb, CustomPanic(dbErr)>>, NoRet, "fatal")
        ELSE Result(IF cfg.Debug THEN DebugSession(database) ELSE database,
                    <<open, getdb>> \o PoolCalls(cfg, database)
                                    \o DebugCalls(cfg, database),
                    NoRet, "ok")

\* InitSql on a wrapper whose stored handle is old: gorm.Open returns
\* connection c (or fails with openErr), database.DB() fails with dbErr or not
InitSqlStep(cfg, old, c, openErr, dbErr) ==
    LET database == BaseHandle(c)
        open == Ev("gorm", NilH, "Open", <<>>, openErr)
        getdb == Ev("local", database, "DB", <<>>, dbErr)
    IN  IF openErr # NoErr
        THEN Result(old, <<open, CustomPanic(openErr)>>, NoRet, "fatal")
        ELSE IF dbErr # NoErr
        THEN Result(old, <<open, getdb, CustomPanic(dbErr)>>, NoRet, "fatal")
        ELSE Result(IF cfg.Debug THEN DebugSession(database) ELSE database,
                    <<open, getdb>> \o PoolCalls(cfg, database)
                                    \o DebugCalls(cfg, database),
                    NoRet, "ok")

InitSql ==
    /\ pc = "idle"
    /\ constructed
    /\ nextConn <= MaxConns
    /\ \E openErr \in {NoErr} \cup Errs, dbErr \in {NoErr} \cup Errs :
          LET r == InitSqlStep(config, db, nextConn, openErr, dbErr) IN
          /\ Finish("InitSql", <<>>, NoDir, r)
          /\ nextConn' = IF openErr = NoErr THEN nextConn + 1 ELSE nextConn
          /\ openConns' = IF openErr = NoErr
                          THEN openConns \cup {nextConn} ELSE openConns
          /\ inited' = (inited \/ r.outcome = "ok")
    /\ UNCHANGED <<constructed, config, applied>>

(* ------------------------------- Close ------------------------------- *)

\* Close on stored handle h: g.db.DB() returns dbErr, sqlDatabase.Close()
\* returns closeErr
CloseStep(h, dbErr, closeErr) ==
    LET getdb == Ev("orm", h, "DB", <<>>, dbErr)
        close == Ev("pool", h, "Close", <<>>, closeErr)
    IN  IF h = NilH
        THEN Result(h, <<Ev("orm", h, "DB", <<>>, NoErr)>>, NoRet, "nilpanic")
        ELSE IF dbErr # NoErr
        THEN Result(h, <<getdb, CustomPanic(dbErr)>>, NoRet, "fatal")
        ELSE IF closeErr # NoErr
        THEN Result(h, <<getdb, close, CustomPanic(closeErr)>>, NoRet, "fatal")
        ELSE Result(h, <<getdb, close>>, NoRet, "ok")

Close ==
    /\ pc = "idle"
    /\ constructed
    /\ \E dbErr \in {NoErr} \cup Errs, closeErr \in {NoErr} \cup Errs :
          LET r == CloseStep(db, dbErr, closeErr) IN
          /\ Finish("Close", <<>>, NoDir, r)
          /\ openConns' = IF r.outcome = "ok"
                          THEN openConns \ {db.conn} ELSE openConns
    /\ UNCHANGED <<constructed, config, nextConn, inited, applied>>

(* ------------------------ forwarding operations ---------------------- *)

\* a wrapper method: its fixed parameters, whether a variadic one follows,
\* whether it returns a value (a Query, a Row, rows, an association, a
\* setting) and whether it returns an error
Sig(n, v, val, e) == [fixed |-> n, variadic |-> v, val |-> val, err |-> e]

Signature ==
    [Where         |-> Sig(1, TRUE, TRUE, FALSE),
     Or            |-> Sig(1, TRUE, TRUE, FALSE),
     Not           |-> Sig(1, TRUE, TRUE, FALSE),
     Limit         |-> Sig(1, FALSE, TRUE, FALSE),
     Offset        |-> Sig(1, FALSE, TRUE, FALSE),
     Order         |-> Sig(1, FALSE, TRUE, FALSE),
     Select        |-> Sig(1, TRUE, TRUE, FALSE),
     Omit          |-> Sig(0, TRUE, TRUE, FALSE),
     Group         |-> Sig(1, FALSE, TRUE, FALSE),
     Having        |-> Sig(1, TRUE, TRUE, FALSE),
     Joins         |-> Sig(1, TRUE, TRUE, FALSE),
     Scopes        |-> Sig(0, TRUE, TRUE, FALSE),
     Unscoped      |-> Sig(0, FALSE, TRUE, FALSE),
     Attrs         |-> Sig(0, TRUE, TRUE, FALSE),
     Assign        |-> Sig(0, TRUE, TRUE, FALSE),
     First         |-> Sig(1, TRUE, TRUE, FALSE),
     Last          |-> Sig(1, TRUE, TRUE, FALSE),
     Find          |-> Sig(1, TRUE, TRUE, FALSE),
     Scan          |-> Sig(1, FALSE, TRUE, FALSE),
     Row           |-> Sig(0, FALSE, TRUE, FALSE),
     Rows          |-> Sig(0, FALSE, TRUE, TRUE),
     ScanRows      |-> Sig(2, FALSE, FALSE, TRUE),
     Pluck         |-> Sig(2, FALSE, TRUE, FALSE),
     Count         |-> Sig(1, FALSE, TRUE, FALSE),
     FirstOrInit   |-> Sig(1, TRUE, TRUE, FALSE),
     FirstOrCreate |-> Sig(1, TRUE, TRUE, FALSE),
     Update        |-> Sig(1, TRUE, TRUE, FALSE),
     Updates       |-> Sig(1, FALSE, TRUE, FALSE),
     UpdateColumn  |-> Sig(1, TRUE, TRUE, FALSE),
     UpdateColumns |-> Sig(1, FALSE, TRUE, FALSE),
     Save          |-> Sig(1, FALSE, TRUE, FALSE),
     Create        |-> Sig(1, FALSE, TRUE, FALSE),
     Delete        |-> Sig(1, TRUE, TRUE, FALSE),
     Raw           |-> Sig(1, TRUE, TRUE, FALSE),
     Exec          |-> Sig(1, TRUE, TRUE, FALSE),
     Model         |-> Sig(1, FALSE, TRUE, FALSE),
     Table         |-> Sig(1, FALSE, TRUE, FALSE),
     Debug         |-> Sig(0, FALSE, TRUE, FALSE),
     Begin         |-> Sig(0, FALSE, TRUE, FALSE),
     Commit        |-> Sig(0, FALSE, TRUE, FALSE),
     Rollback      |-> Sig(0, FALSE, TRUE, FALSE),
     AutoMigrate   |-> Sig(0, TRUE, FALSE, TRUE),
     Association   |-> Sig(1, FALSE, TRUE, FALSE),
     Preload       |-> Sig(1, TRUE, TRUE, FALSE),
     Set           |-> Sig(2, FALSE, TRUE, FALSE),
     InstanceSet   |-> Sig(2, FALSE, TRUE, FALSE),
     Get           |-> Sig(1, FALSE, TRUE, FALSE),
     SetJoinTable  |-> Sig(3, FALSE, FALSE, TRUE),
     AddError      |-> Sig(1, FALSE, FALSE, TRUE)]

QueryOps == DOMAIN Signature

\* the argument lists a caller may pass to op
ArgLists(op) ==
    LET s == Signature[op]
        most == s.fixed + (IF s.variadic THEN MaxVariadic ELSE 0)
    IN  UNION {[1..n -> Values] : n \in s.fixed..most}

\* (mutant) Commit and Rollback forwarded to each other
LibMethodSwapped(op) ==
    IF op = "SetJoinTable" THEN "SetupJoinTable"
    ELSE IF op = "Commit" THEN "Rollback"
    ELSE IF op = "Rollback" THEN "Commit"
    ELSE op

\* the *gorm.DB method the wrapper method op calls
LibMethod(op) == IF op = "SetJoinTable" THEN "SetupJoinTable" ELSE op

\* `f(args...)`: every element of the list is an argument of its own
Spread(args) == [i \in 1..Len(args) |-> Scalar(args[i])]

\* the function the i-th closure built by Scopes' range loop calls when the
\* ORM runs it, which is after the loop has ended: the closure reads the
\* loop variable f, and before Go 1.22 all iterations share that variable
ClosureTarget(funcs, i) ==
    IF GoMinor < 22 THEN funcs[Len(funcs)] ELSE funcs[i]

\* the arguments the wrapper method op hands the library, given its own
LibArgs(op, args) ==
    IF op \in {"Update", "UpdateColumn"}
    THEN <<Scalar(args[1]), SliceOf(SubSeq(args, 2, Len(args)))>>
    ELSE IF op = "Scopes"
    THEN [i \in 1..Len(args) |-> Scalar(ClosureTarget(args, i))]
    ELSE Spread(args)

\* what the library call m(a) on h returns to the wrapper, e being the error
\* it reports (NoErr for a method that returns none)
LibReturn(op, h, m, a, e) ==
    Ret(IF Signature[op].val THEN Derived(h, m, a) ELSE NilH, 0, e)

\* what the wrapper method returns, given the library's result
WrapperReturn(op, r) ==
    IF op = "SetJoinTable"
    THEN (IF r.err # NoErr THEN Ret(NilH, 0, r.err) ELSE Ret(NilH, 0, NoErr))
    ELSE r

\* (mutant) a fluent wrapper: the handle a chainable call returns becomes the
\* stored handle
ForwardStepFluent(h, op, args, e) ==
    LET m == LibMethod(op)
        a == LibArgs(op, args)
    IN  IF h = NilH
        THEN Result(h, <<Ev("orm", h, m, a, NoErr)>>, NoRet, "nilpanic")
        ELSE Result(IF Signature[op].val /\ ~Signature[op].err
                    THEN Derived(h, m, a) ELSE h,
                    <<Ev("orm", h, m, a, e)>>,
                    WrapperReturn(op, LibReturn(op, h, m, a, e)), "ok")

\* `return g.db.M(...)` on stored handle h
ForwardStep(h, op, args, e) ==
    LET m == LibMethod(op)
        a == LibArgs(op, args)
    IN  IF h = NilH
        THEN Result(h, <<Ev("orm", h, m, a, NoErr)>>, NoRet, "nilpanic")
        ELSE Result(h, <<Ev("orm", h, m, a, e)>>,
                    WrapperReturn(op, LibReturn(op, h, m, a, e)), "ok")

Forward ==
    /\ pc = "idle"
    /\ constructed
    /\ \E op \in QueryOps :
       \E args \in ArgLists(op) :
       \E e \in (IF Signature[op].err THEN {NoErr} \cup Errs ELSE {NoErr}) :
          Finish(op, args, NoDir, ForwardStep(db, op, args, e))
    /\ UNCHANGED <<constructed, config, nextConn, openConns, inited, applied>>

\* RowsAffected and Error: `return g.db.RowsAffected`, `return g.db.Error`,
\* v and e being what the fields hold
FieldStep(h, field, v, e) ==
    IF h = NilH
    THEN Result(h, <<Ev("field", h, field, <<>>, NoErr)>>, NoRet, "nilpanic")
    ELSE IF field = "Error"
    THEN Result(h, <<Ev("field", h, field, <<>>, e)>>, Ret(NilH, 0, e), "ok")
    ELSE Result(h, <<Ev("field", h, field, <<>>, NoErr)>>, Ret(NilH, v, NoErr), "ok")

FieldRead ==
    /\ pc = "idle"
    /\ constructed
    /\ \E field \in {"RowsAffected", "Error"} :
       \E v \in 0..NumVals, e \in {NoErr} \cup Errs :
          /\ (field = "Error" => v = 0)
          /\ (field = "RowsAffected" => e = NoErr)
          /\ Finish(field, <<>>, NoDir, FieldStep(db, field, v, e))
    /\ UNCHANGED <<constructed, config, nextConn, openConns, inited, applied>>

(* ------------------------------ Migrate ------------------------------ *)

\* a directory entry (os.FileInfo): its name and whether Mode().IsRegular()
Entries == [name : Names, regular : BOOLEAN]

\* what dir.Readdir(-1) may return: the entries of a directory in any order
\* (names are unique within a directory)
Listings ==
    {l \in UNION {[1..n -> Entries] : n \in 0..MaxFiles} :
        \A i, j \in 1..Len(l) : i # j => l[i].name # l[j].name}

\* the file system: the bytes of the file called n in the directory (two
\* files differ, and a lower name does not mean a lower statement)
FileContent(n) == 10 * (MaxFiles + 1 - n) + n

\* sort.Slice(fileInfos, less by Name()): insertion into the sorted prefix
RECURSIVE InsertByName(_, _)
InsertByName(sorted, fi) ==
    IF sorted = <<>> THEN <<fi>>
    ELSE IF fi.name < Head(sorted).name THEN <<fi>> \o sorted
    ELSE <<Head(sorted)>> \o InsertByName(Tail(sorted), fi)

\* (mutant) the listing left in the order Readdir returned it
Unsorted(fileInfos) == fileInfos

RECURSIVE SortByName(_)
SortByName(fileInfos) ==
    IF fileInfos = <<>> THEN <<>>
    ELSE InsertByName(SortByName(SubSeq(fileInfos, 1, Len(fileInfos) - 1)),
                      fileInfos[Len(fileInfos)])

\* what the environment does to one Migrate call: the error value it
\* reports, and the file (0: none) whose read ("read") or whose statement
\* ("exec") fails.  The handler ends at its first failure, so one failing
\* file per call covers every run
MigrateEnvs ==
    [err : Errs, file : {0}, kind : {"no"}]
        \cup [err : Errs, file : Names, kind : {"read", "exec"}]

\* g.db.Exec(g.parseSqlFile(path, fileInfo)).Error for one regular file, on
\* stored handle h: the file is read first (the argument is evaluated
\* before the call), then the statement is executed
ExecFile(h, fi, env) ==
    LET kind == IF env.file = fi.name THEN env.kind ELSE "no"
        read == Ev("os", NilH, "ReadFile", <<Scalar(fi.name)>>,
                   IF kind = "read" THEN env.err ELSE NoErr)
        exec == Ev("orm", h, "Exec", <<Scalar(FileContent(fi.name))>>,
                   IF kind = "exec" /\ h # NilH THEN env.err ELSE NoErr)
    IN  IF kind = "read" THEN <<read, CustomPanic(env.err)>>
        ELSE IF h = NilH THEN <<read, exec>>
        ELSE IF kind = "exec" THEN <<read, exec, CustomPanic(env.err)>>
        ELSE <<read, exec>>

\* whether the calls made for one file ended the handler
Aborted(h, t) ==
    t # <<>> /\ (t[Len(t)].kind = "fatal" \/ (t[Len(t)].kind = "orm" /\ h = NilH))

\* (mutant) the loop goes on to the next file after a failed statement
RECURSIVE MigrateLoopKeepGoing(_, _, _)
MigrateLoopKeepGoing(h, fileInfos, env) ==
    IF fileInfos = <<>> THEN <<>>
    ELSE IF ~Head(fileInfos).regular
    THEN MigrateLoopKeepGoing(h, Tail(fileInfos), env)
    ELSE ExecFile(h, Head(fileInfos), env)
            \o MigrateLoopKeepGoing(h, Tail(fileInfos), env)

\* `for _, fileInfo := range fileInfos { if fileInfo.Mode().IsRegular() {...} }`
RECURSIVE MigrateLoop(_, _, _)
MigrateLoop(h, fileInfos, env) ==
    IF fileInfos = <<>> THEN <<>>
    ELSE IF ~Head(fileInfos).regular THEN MigrateLoop(h, Tail(fileInfos), env)
    ELSE LET t == ExecFile(h, Head(fileInfos), env) IN
         IF Aborted(h, t) THEN t
         ELSE t \o MigrateLoop(h, Tail(fileInfos), env)

\* Migrate(path) on stored handle h, fileInfos being the entries the loop
\* ranges over; d is the directory at path: whether os.Open fails on it
\* ("noopen"), dir.Readdir fails ("nolist") or neither ("ok"), and what
\* Readdir lists
MigrateBody(h, d, env, fileInfos) ==
    LET open == Ev("os", NilH, "Open", <<>>,
                   IF d.status = "noopen" THEN env.err ELSE NoErr)
        readdir == Ev("os", NilH, "Readdir", <<>>,
                      IF d.status = "nolist" THEN env.err ELSE NoErr)
        \* `defer dir.Close()`: runs however the handler ends, result discarded
        dirclose == Ev("os", NilH, "dir.Close", <<>>, NoErr)
        loop == MigrateLoop(h, fileInfos, env)
    IN  IF d.status = "noopen"
        THEN Result(h, <<open, CustomPanic(env.err)>>, NoRet, "fatal")
        ELSE IF d.status = "nolist"
        THEN Result(h, <<open, readdir,
                         Ev("print", NilH, "Println", <<>>, env.err), dirclose>>,
                    NoRet, "ok")
        ELSE Result(h, <<open, readdir>> \o loop \o <<dirclose>>, NoRet,
                    IF ~Aborted(h, loop) THEN "ok"
                    ELSE IF h = NilH /\ loop[Len(loop)].kind = "orm" THEN "nilpanic"
                    ELSE "fatal")

\* (mutant) version tracking: a file whose statement the previous Migrate
\* call executed is skipped
MigrateStepTracked(h, d, env) ==
    MigrateBody(h, d, env,
        SelectSeq(SortByName(d.listing),
                  LAMBDA fi : \A i \in 1..Len(applied.exec) :
                                 applied.exec[i] # FileContent(fi.name)))

MigrateStep(h, d, env) == MigrateBody(h, d, env, SortByName(d.listing))

Dirs ==
    [status : {"ok"}, listing : Listings]
        \cup [status : {"noopen", "nolist"}, listing : {<<>>}]

Migrate ==
    /\ pc = "idle"
    /\ constructed
    /\ \E d \in Dirs, env \in MigrateEnvs :
          Finish("Migrate", <<>>, d, MigrateStep(db, d, env))
    /\ UNCHANGED <<constructed, config, nextConn, openConns, inited, applied>>

(* ------------------------------- Seed -------------------------------- *)

\* Seed: the whole body is commented out, the method does nothing
SeedStep(h) == Result(h, <<>>, NoRet, "ok")

Seed ==
    /\ pc = "idle"
    /\ constructed
    /\ Finish("Seed", <<>>, NoDir, SeedStep(db))
    /\ UNCHANGED <<constructed, config, nextConn, openConns, inited, applied>>

(* ------------------------------ caller ------------------------------- *)

\* the statements a trace executed on a set handle, in order
ExecStmts(t) ==
    LET x == SelectSeq(t, LAMBDA e : e.kind = "orm" /\ e.method = "Exec"
                                     /\ e.recv # NilH)
    IN  [i \in 1..Len(x) |-> x[i].args[1].elems[1]]

\* the entries of a listing, whatever their order
Files(d) == {d.listing[i] : i \in 1..Len(d.listing)}

\* the caller goes on to its next call
Return ==
    /\ pc = "done"
    /\ pc' = "idle"
    /\ call' = NoCall
    /\ dir' = NoDir
    /\ trace' = <<>>
    /\ ret' = NoRet
    /\ outcome' = ""
    /\ prior' = IF call.name \in {"Where", "Begin"} /\ outcome = "ok"
                THEN call.name ELSE ""
    /\ UNCHANGED <<constructed, config, db, nextConn, openConns, inited>>

Continue ==
    /\ Return
    /\ applied' = applied

\* the same, remembering the Migrate call just ended for the next one
ContinueAfterMigrate ==
    /\ Return
    /\ applied' = IF call.name # "Migrate" THEN applied
                  ELSE IF outcome = "ok" /\ dir.status = "ok"
                  THEN [valid |-> TRUE, files |-> Files(dir),
                        exec |-> ExecStmts(trace)]
                  ELSE NoApplied

Next ==
    \/ NewSql
    \/ InitSql
    \/ Close
    \/ Migrate
    \/ Forward
    \/ FieldRead
    \/ Seed
    \/ Continue

Spec == Init /\ [][Next]_vars

\* runs of Migrate calls, one after another, on a wrapper set up or not
NextMigrate ==
    \/ Migrate
    \/ ContinueAfterMigrate

\* a wrapper NewSql has returned, before InitSql or after it (with and
\* without Debug)
DebugConfig == [ZeroConfig EXCEPT !.Debug = TRUE]

InitMigrate ==
    /\ constructed = TRUE
    /\ \/ config = ZeroConfig /\ db = NilH /\ inited = FALSE
          /\ nextConn = 1 /\ openConns = {}
       \/ config = ZeroConfig /\ db = BaseHandle(1) /\ inited = TRUE
          /\ nextConn = 2 /\ openConns = {1}
       \/ config = DebugConfig /\ db = DebugSession(BaseHandle(1))
          /\ inited = TRUE /\ nextConn = 2 /\ openConns = {1}
    /\ applied = NoApplied
    /\ prior = ""
    /\ pc = "idle"
    /\ call = NoCall
    /\ dir = NoDir
    /\ trace = <<>>
    /\ ret = NoRet
    /\ outcome = ""

SpecMigrate == InitMigrate /\ [][NextMigrate]_vars

\* set-up under every configuration
NextConfig ==
    \/ NewSqlAnyConfig
    \/ InitSql
    \/ Close
    \/ Continue

SpecConfig == Init /\ [][NextConfig]_vars

(* ======================= the claims, checked ========================= *)

ForwardDone == pc = "done" /\ call.name \in QueryOps
MigrateDone == pc = "done" /\ call.name = "Migrate"
InitSqlDone == pc = "done" /\ call.name = "InitSql"

\* the name of the file whose content is the statement s
NameOf(s) == CHOOSE n \in Names : FileContent(n) = s
RegularNames(d) == {fi.name : fi \in {x \in Files(d) : x.regular}}
ExecNames(t) == [i \in 1..Len(ExecStmts(t)) |-> NameOf(ExecStmts(t)[i])]
\* the positions of the calls of method m of kind k in a trace
Calls(t, k, m) == {i \in 1..Len(t) : t[i].kind = k /\ t[i].method = m}

(* C1 (as stated): every query operation makes exactly one call on the
   stored handle, to the ORM method of the SAME NAME, and returns that
   call's result. *)
C1_SameName ==
    ForwardDone =>
        /\ Len(trace) = 1
        /\ trace[1].kind = "orm"
        /\ trace[1].method = call.name

(* C1 (amended): every query operation makes exactly one call on the stored
   handle, to the ORM method of the same name, except that SetJoinTable
   calls SetupJoinTable; and what it returns is that call's result (the
   handle or value the call produced, the error it reported). *)
C1_Forwarding ==
    ForwardDone =>
        /\ Len(trace) = 1
        /\ trace[1].kind = "orm"
        /\ trace[1].recv = db
        /\ trace[1].method =
              (IF call.name = "SetJoinTable" THEN "SetupJoinTable" ELSE call.name)
        /\ outcome = "ok" =>
              /\ ret.err = trace[1].err
              /\ ret.h = IF call.name \in {"ScanRows", "AutoMigrate",
                                           "SetJoinTable", "AddError"}
                         THEN NilH
                         ELSE Derived(trace[1].recv, trace[1].method, trace[1].args)

C1_Witness ==
    /\ ForwardDone
    /\ call.name = "SetJoinTable"
    /\ outcome = "ok"
    /\ trace[1].method = "SetupJoinTable"
    /\ ret.err = 2

(* C2: for every query operation and argument list, the library method is
   called with the arguments the wrapper received: same count, same order,
   same values, each variadic argument an argument of its own (Update and
   UpdateColumn hand over a1..an themselves, Scopes applies f1..fn in that
   order, each once). *)
C2_SameArguments ==
    ForwardDone =>
        /\ Len(trace[1].args) = Len(call.args)
        /\ \A i \in 1..Len(call.args) :
              trace[1].args[i] = [slice |-> FALSE, elems |-> <<call.args[i]>>]

(* C3: one completed Migrate call on a readable directory executes the
   content of every regular file of the directory, one statement per file,
   exactly once, in strictly ascending order of file name whatever the
   order of the listing, and nothing for an entry that is not a regular
   file.  (Order, at-most-once and regular-only hold of every call, also of
   one that a failure ends early.) *)
C3_MigrateSortedOnce ==
    (MigrateDone /\ dir.status = "ok") =>
        LET x == ExecStmts(trace) IN
        /\ \A i \in 1..Len(x) :
              \E n \in RegularNames(dir) : x[i] = FileContent(n)
        /\ \A i, j \in 1..Len(x) : i < j => NameOf(x[i]) < NameOf(x[j])
        /\ outcome = "ok" =>
              /\ {NameOf(x[i]) : i \in 1..Len(x)} = RegularNames(dir)
              /\ Len(x) = Cardinality(RegularNames(dir))

C3_Witness ==
    /\ MigrateDone
    /\ outcome = "ok"
    /\ Len(dir.listing) = 3
    /\ dir.listing[1].name = 3 /\ dir.listing[1].regular
    /\ dir.listing[2].name = 2 /\ ~dir.listing[2].regular
    /\ dir.listing[3].name = 1 /\ dir.listing[3].regular
    /\ ExecStmts(trace) = <<FileContent(1), FileContent(3)>>

(* C4: Seed first counts the existing records and inserts the seed records
   only when the count is zero. *)
C4_SeedCountsThenInserts ==
    (pc = "done" /\ call.name = "Seed" /\ db # NilH) =>
        /\ Len(trace) >= 1
        /\ trace[1].kind = "orm"
        /\ trace[1].method = "Count"

(* C5: every error a handler meets is either returned (exposed) to the
   caller unchanged, or passed to the fatal helper; none is dropped or
   merely printed while the handler returns normally. *)
C5_ErrorsSurfaced ==
    pc = "done" =>
        \A i \in 1..Len(trace) :
            (trace[i].err # NoErr /\ trace[i].kind \notin {"fatal", "print"}) =>
                \/ outcome = "ok" /\ ret.err = trace[i].err
                \/ /\ i < Len(trace)
                   /\ trace[i + 1].kind = "fatal"
                   /\ trace[i + 1].err = trace[i].err

(* C6: Migrate keeps no record of the files already applied: a Migrate call
   leaves the wrapper's stored handle and config as they were, and a call
   that follows a completed call on the same directory content, and
   completes too, executes the same full sequence of statements again. *)
C6_NoVersionTracking ==
    [][(pc = "idle" /\ call'.name = "Migrate") =>
          /\ db' = db
          /\ config' = config
          /\ (applied.valid /\ dir'.status = "ok" /\ outcome' = "ok"
                /\ Files(dir') = applied.files) =>
                /\ ExecStmts(trace') = applied.exec
                /\ Len(applied.exec) = Cardinality(RegularNames(dir'))]_vars

C6_Witness ==
    /\ MigrateDone
    /\ outcome = "ok"
    /\ applied.valid
    /\ applied.files = Files(dir)
    /\ Len(applied.exec) >= 2
    /\ ExecStmts(trace) = applied.exec

(* C7: when the statement of the k-th file (in sorted order) fails, the
   fatal helper is called with that error before any later file is
   executed; the statements of files 1..k-1 stay executed (Migrate issues
   nothing but Exec: no rollback, no transaction); and when the directory
   cannot be opened or listed, Migrate executes no statement. *)
C7_FailStopsNoRollback ==
    MigrateDone =>
        /\ \A i \in Calls(trace, "orm", "Exec") :
              trace[i].err # NoErr =>
                 /\ i < Len(trace)
                 /\ trace[i + 1].kind = "fatal"
                 /\ trace[i + 1].err = trace[i].err
                 /\ \A j \in 1..Len(trace) :
                       j > i => trace[j].kind \notin {"orm", "field", "local", "pool"}
                 /\ LET k == NameOf(trace[i].args[1].elems[1]) IN
                    {ExecNames(trace)[j] : j \in 1..Len(ExecNames(trace))}
                        = {n \in RegularNames(dir) : n <= k}
        /\ \A i \in 1..Len(trace) :
              trace[i].kind \in {"orm", "field", "local", "pool"} =>
                  trace[i].kind = "orm" /\ trace[i].method = "Exec"
        /\ dir.status # "ok" => ExecStmts(trace) = <<>>

C7_Witness ==
    /\ MigrateDone
    /\ outcome = "fatal"
    /\ RegularNames(dir) = {1, 2, 3}
    /\ ExecNames(trace) = <<1, 2>>
    /\ \E i \in Calls(trace, "orm", "Exec") :
          /\ trace[i].args = <<Scalar(FileContent(2))>>
          /\ trace[i].err = 1
          /\ trace[i + 1] = CustomPanic(1)

(* C8: InitSql is the only operation that assigns the stored handle; every
   other operation leaves handle and config as they were, so every call
   made on the wrapper goes to the base handle InitSql stored, which
   carries no condition of an earlier call: a Find after a Where is made
   without the Where, a Commit or Rollback after a Begin is made on the
   base handle, not on the transaction Begin returned. *)
C8_OnlyInitSqlAssigns ==
    [][(pc = "idle" /\ pc' = "done") =>
          /\ call'.name \notin {"InitSql", "NewSql"} =>
                (db' = db /\ config' = config)
          /\ db'.chain = <<>>
          /\ \A i \in 1..Len(trace') :
                trace'[i].kind \in {"orm", "field"} =>
                    (trace'[i].recv = db /\ trace'[i].recv.chain = <<>>)]_vars

C8_Witness ==
    /\ pc = "done"
    /\ call.name = "Commit"
    /\ prior = "Begin"
    /\ outcome = "ok"
    /\ trace[1].recv = db
    /\ db.chain = <<>>
    /\ ret.h.chain = <<[m |-> "Commit", a |-> <<>>]>>

\* the state part of C9: what holds of every state
C9_StateInv ==
    /\ (db # NilH) <=> inited
    /\ pc = "done" =>
          /\ \A i \in 1..Len(trace) :
                trace[i].kind \in {"orm", "field"} =>
                    ((trace[i].recv # NilH) <=> inited)
          /\ (outcome = "nilpanic") <=>
                (~inited /\ \E i \in 1..Len(trace) :
                                trace[i].kind \in {"orm", "field"})
          /\ (call.name \in QueryOps \cup {"Close", "RowsAffected", "Error"}) =>
                \E i \in 1..Len(trace) : trace[i].kind \in {"orm", "field"}

(* C9: the stored handle is unset from NewSql until an InitSql call
   completes, and no operation checks it: a query operation, a field read,
   a Migrate that reaches a regular file, or Close uses a set handle if and
   only if an InitSql call has completed before, and dereferences nil
   otherwise; and an InitSql call that completes stores a new handle
   without closing the connection of the one it replaces. *)
C9_HandleSetIffInited ==
    /\ []C9_StateInv
    /\ [][(pc = "idle" /\ call'.name = "InitSql" /\ outcome' = "ok") =>
             /\ db'.conn # db.conn
             /\ db'.conn \in openConns'
             /\ Calls(trace', "pool", "Close") = {}
             /\ openConns \subseteq openConns']_vars

C9_Witness ==
    /\ InitSqlDone
    /\ outcome = "ok"
    /\ db.conn = 2
    /\ openConns = {1, 2}

(* C10: InitSql applies each of the three pool settings if and only if its
   configured value is non-zero (a negative one is applied), each
   independently of the others, with the configured value (the lifetime as
   that many seconds); and the stored handle is the debug session if and
   only if Debug is set. *)
C10_PoolSettings ==
    (InitSqlDone /\ outcome = "ok") =>
        /\ \A p \in {<<"SetMaxIdleConns", config.MaxIdleConnections, 1>>,
                     <<"SetMaxOpenConns", config.MaxOpenConnections, 1>>,
                     <<"SetConnMaxLifetime", config.MaxLifetimeSeconds, 1000000000>>} :
              /\ (Calls(trace, "pool", p[1]) # {}) <=> (p[2] # 0)
              /\ Cardinality(Calls(trace, "pool", p[1])) <= 1
              /\ \A i \in Calls(trace, "pool", p[1]) :
                    /\ trace[i].args = <<[slice |-> FALSE, elems |-> <<p[2] * p[3]>>]>>
                    /\ trace[i].recv.conn = db.conn
        /\ db.debug <=> config.Debug
        /\ (Calls(trace, "local", "Debug") # {}) <=> config.Debug

C10_Witness ==
    /\ InitSqlDone
    /\ outcome = "ok"
    /\ config.MaxIdleConnections = -1
    /\ config.MaxOpenConnections = 0
    /\ config.MaxLifetimeSeconds = 2
    /\ config.Debug
    /\ db.debug
    /\ Calls(trace, "pool", "SetMaxIdleConns") # {}
    /\ Calls(trace, "pool", "SetMaxOpenConns") = {}

=============================================================================
